---- MODULE Spec2Model ----
(***************************************************************************)
(* Handmade Chocolate API (src/main.py): the request handlers of the       *)
(* catalog service over one shared document store.                         *)
(*                                                                         *)
(* Representation.  A Python value that may be None is a sequence of       *)
(* length at most one (<<>> is None, <<v>> is v).  A text that the code    *)
(* only stores and returns is a TLA+ string; where the code looks inside   *)
(* a text (the $regex of list, the hex digits of an ObjectId, a [:50]      *)
(* slice) the text is the sequence of its characters.  A price is the      *)
(* decimal text of the float.                                              *)
(***************************************************************************)
EXTENDS Integers, Sequences, FiniteSets, TLC

\* ---------------------------------------------------------------- bounds
NumReq == 2
MaxSeeds == 2
MaxCreates == 2
MaxCollections == 12

\* ------------------------------------------------------ program constants
CollectionCap == 10
ErrorCap == 50
DefaultLimit == 50
OidHexLen == 24

None == <<>>
Some(v) == <<v>>

Min(a, b) == IF a < b THEN a ELSE b

\* ------------------------------------------------------------- characters
UpperLetters ==
  <<"A","B","C","D","E","F","G","H","I","J","K","L","M",
    "N","O","P","Q","R","S","T","U","V","W","X","Y","Z">>
LowerLetters ==
  <<"a","b","c","d","e","f","g","h","i","j","k","l","m",
    "n","o","p","q","r","s","t","u","v","w","x","y","z">>

\* The characters of the modelled texts.
Alphabet ==
  {UpperLetters[i] : i \in 1..26} \cup {LowerLetters[i] : i \in 1..26}
  \cup {" ", ".", "("}

\* Case folding of one character, as the "i" option of $regex folds it.
FoldTable ==
  [c \in Alphabet |->
     IF \E i \in 1..26 : UpperLetters[i] = c
     THEN LowerLetters[CHOOSE i \in 1..26 : UpperLetters[i] = c]
     ELSE c]

Fold(c) == FoldTable[c]

\* The characters of the texts that list looks inside.
Chars(s) ==
  CASE s = "Sea Salt Caramel Truffle" ->
         <<"S","e","a"," ","S","a","l","t"," ","C","a","r","a","m","e","l",
           " ","T","r","u","f","f","l","e">>
    [] s = "Hazelnut Praline Bonbon" ->
         <<"H","a","z","e","l","n","u","t"," ","P","r","a","l","i","n","e",
           " ","B","o","n","b","o","n">>
    [] s = "Raspberry Velvet Heart" ->
         <<"R","a","s","p","b","e","r","r","y"," ","V","e","l","v","e","t",
           " ","H","e","a","r","t">>
    [] s = "Almond Crunch Bar" ->
         <<"A","l","m","o","n","d"," ","C","r","u","n","c","h"," ","B","a","r">>
    [] s = "Test Bar" -> <<"T","e","s","t"," ","B","a","r">>
    [] s = "Dark Ganache" -> <<"D","a","r","k"," ","G","a","n","a","c","h","e">>
    [] s = "dark" -> <<"d","a","r","k">>
    [] s = "bar" -> <<"b","a","r">>
    [] s = "BAR" -> <<"B","A","R">>
    [] s = "." -> <<".">>
    [] s = "(" -> <<"(">>
    [] s = "" -> <<>>

\* ------------------------------------------------------------ ObjectId
HexDigits == <<"0","1","2","3","4","5","6","7","8","9","a","b","c","d","e","f">>
HexUpper  == <<"0","1","2","3","4","5","6","7","8","9","A","B","C","D","E","F">>

IsHex(c) == \E i \in 1..16 : HexDigits[i] = c \/ HexUpper[i] = c
HexVal(c) == (CHOOSE i \in 1..16 : HexDigits[i] = c \/ HexUpper[i] = c) - 1

\* bson.ObjectId.is_valid on a str: 24 characters, all hex digits.
ObjectIdValid(s) == Len(s) = OidHexLen /\ \A i \in 1..Len(s) : IsHex(s[i])

\* ObjectId(s) of a valid s: the 24 nibbles of its 12 bytes.
ObjectIdParse(s) == [i \in 1..OidHexLen |-> HexVal(s[i])]

\* The identifier the store generates for its n-th inserted document: a fixed
\* machine/time prefix and a counter in the low digits.
OidPrefix == <<6, 5, 4, 15, 1, 10, 2, 11>>
ObjectIdOf(n) ==
  [i \in 1..OidHexLen |->
     IF i <= Len(OidPrefix) THEN OidPrefix[i]
     ELSE IF i = OidHexLen THEN n % 16
     ELSE IF i = OidHexLen - 1 THEN (n \div 16) % 16
     ELSE 0]

\* str(oid): 24 lower-case hex digits.
ObjectIdStr(oid) == [i \in 1..OidHexLen |-> HexDigits[oid[i] + 1]]

\* The same digits in upper case, which ObjectId() also accepts.
UpperHex(s) ==
  [i \in 1..Len(s) |->
     IF \E k \in 1..16 : HexDigits[k] = s[i]
     THEN HexUpper[CHOOSE k \in 1..16 : HexDigits[k] = s[i]]
     ELSE s[i]]

\* --------------------------------------------------------------- $regex
\* The pattern language of the modelled queries: a letter or a space matches
\* itself, "." matches any one character, and an unclosed "(" does not
\* compile.  The search is unanchored.
RegexCompiles(pat) == \A i \in 1..Len(pat) : pat[i] # "("

RegexSearch(pat, text) ==
  \E start \in 1..(Len(text) - Len(pat) + 1) :
    \A i \in 1..Len(pat) :
      \/ pat[i] = "."
      \/ Fold(pat[i]) = Fold(text[start + i - 1])

InSeq(x, s) == \E i \in 1..Len(s) : s[i] = x

Take(s, n) == SubSeq(s, 1, Min(n, Len(s)))

\* ------------------------------------------------------------ exceptions
\* What a try body ends with: a returned value or a raised exception.  An
\* HTTPException carries its status; any other exception has status 0.
Return(v) == [kind |-> "return", value |-> v]
Raise(type, status, msg) ==
  [kind |-> "raise", type |-> type, status |-> status, msg |-> msg]

NotAvailableMsg == "Database not available"
NotFoundMsg == "Chocolate not found"
InvalidIdMsg == "is not a valid ObjectId, it must be a 12-byte input or a 24-character hex string"
BadRegexMsg == "Regular expression is invalid: missing closing parenthesis"
AlreadySeededMsg == "Collection already has data"

\* except Exception as e: raise HTTPException(status_code=500, detail=str(e))
\* as the only clause: it catches every exception of the body.
CatchAllMissing(res) == res

CatchAll(res) ==
  IF res.kind = "raise" THEN Raise("HTTPException", 500, res.msg) ELSE res

\* except HTTPException: raise, then except Exception -> 500.
CatchAllButHttpNoReraise(res) ==
  IF res.kind = "raise" THEN Raise("HTTPException", 500, res.msg) ELSE res

CatchAllButHttp(res) ==
  IF res.kind = "raise" /\ res.type # "HTTPException"
  THEN Raise("HTTPException", 500, res.msg)
  ELSE res

\* What the framework sends for a handler's outcome: 200 with the returned
\* value, an HTTPException's status with its detail, and for any other
\* exception leaving the handler an unhandled failure.
Respond(res) ==
  IF res.kind = "return"
  THEN [status |-> 200, body |-> res.value, escaped |-> FALSE]
  ELSE IF res.type = "HTTPException"
  THEN [status |-> res.status, body |-> [detail |-> res.msg], escaped |-> FALSE]
  ELSE [status |-> 500, body |-> [detail |-> "Internal Server Error"],
        escaped |-> TRUE]

\* ---------------------------------------------------------------- records
Fields ==
  {"name", "description", "price", "category", "cacao_percent", "image",
   "tags", "in_stock"}

\* ChocolateCreate's defaults for the optional fields.
FieldDefaultInStockFalse(f) ==
  CASE f = "cacao_percent" -> None
    [] f = "image" -> None
    [] f = "tags" -> <<>>
    [] f = "in_stock" -> FALSE

FieldDefault(f) ==
  CASE f = "cacao_percent" -> None
    [] f = "image" -> None
    [] f = "tags" -> <<>>
    [] f = "in_stock" -> TRUE

\* payload.model_dump(): every field, the omitted ones at their defaults.
ModelDump(payload) ==
  [f \in Fields |-> IF f \in DOMAIN payload THEN payload[f] ELSE FieldDefault(f)]

\* Chocolate(**fields): the schema's record of the same fields.
Chocolate(fields) == [f \in Fields |-> fields[f]]

WithId(doc, oid) ==
  [f \in DOMAIN doc \cup {"_id"} |-> IF f = "_id" THEN oid ELSE doc[f]]

\* d["id"] = str(d.get("_id")); d.pop("_id", None)
Shape(doc) ==
  [f \in (DOMAIN doc \ {"_id"}) \cup {"id"} |->
     IF f = "id" THEN ObjectIdStr(doc["_id"]) ELSE doc[f]]

\* The four sample documents of seed.
Samples ==
  << [name |-> "Sea Salt Caramel Truffle",
      description |-> "Silky caramel center with a kiss of sea salt, enrobed in dark chocolate.",
      price |-> "3.5", category |-> "Truffle", cacao_percent |-> Some(70),
      image |-> Some("https://images.unsplash.com/photo-1541781774459-bb2af2f05b55?q=80&w=1600&auto=format&fit=crop"),
      tags |-> <<"caramel", "salted", "dark">>, in_stock |-> TRUE],
     [name |-> "Hazelnut Praline Bonbon",
      description |-> "Roasted hazelnut praline with a creamy finish, dipped in milk chocolate.",
      price |-> "3.0", category |-> "Bonbon", cacao_percent |-> Some(45),
      image |-> Some("https://images.unsplash.com/photo-1606313564200-e75d5e30476c?q=80&w=1600&auto=format&fit=crop"),
      tags |-> <<"hazelnut", "praline", "milk">>, in_stock |-> TRUE],
     [name |-> "Raspberry Velvet Heart",
      description |-> "Tart raspberry ganache balanced with rich dark chocolate in a heart shell.",
      price |-> "3.2", category |-> "Bonbon", cacao_percent |-> Some(64),
      image |-> Some("https://images.unsplash.com/photo-1585145197082-583a1a5b86b8?q=80&w=1600&auto=format&fit=crop"),
      tags |-> <<"raspberry", "fruit", "dark">>, in_stock |-> TRUE],
     [name |-> "Almond Crunch Bar",
      description |-> "Toasted almond nibs folded into a crisp 72% dark chocolate bar.",
      price |-> "6.5", category |-> "Bar", cacao_percent |-> Some(72),
      image |-> Some("https://images.unsplash.com/photo-1624378439575-d8705ad7ae80?q=80&w=1600&auto=format&fit=crop"),
      tags |-> <<"almond", "bar", "dark">>, in_stock |-> TRUE] >>

\* The create payloads of the model: the required fields alone, and every
\* field given.
Payloads ==
  << [name |-> "Test Bar", description |-> "d", price |-> "5.0",
      category |-> "Bar"],
     [name |-> "Dark Ganache", description |-> "Vegan ganache square.",
      price |-> "4.25", category |-> "bar", cacao_percent |-> Some(85),
      image |-> Some("https://example.com/ganache.jpg"),
      tags |-> <<"vegan", "BAR">>, in_stock |-> FALSE] >>

\* ------------------------------------------------------------------ store
\* insert_many / insert_one: the store gives the k-th new document the
\* identifier ObjectIdOf(next + k - 1) and appends it.
InsertAll(coll, next, docs) ==
  coll \o [k \in 1..Len(docs) |-> WithId(docs[k], ObjectIdOf(next + k - 1))]

\* The outcome of a handler: what its body ended with and the store after it.
Outcome(res, coll, next) == [res |-> res, coll |-> coll, next |-> next]

\* A store call either works or the driver raises with a message.
NoFault == None
Faults == {NoFault, Some("connection closed")}

\* create_document(collection, document): StoreUnavailable without a
\* connection, otherwise the document is persisted and its identifier
\* returned as a string.
CreateDocument(dbLive, coll, next, doc, fault) ==
  IF ~dbLive THEN Outcome(Raise("Exception", 0, NotAvailableMsg), coll, next)
  ELSE IF fault # NoFault
  THEN Outcome(Raise("PyMongoError", 0, fault[1]), coll, next)
  ELSE Outcome(Return(ObjectIdStr(ObjectIdOf(next))),
               InsertAll(coll, next, <<doc>>), next + 1)

\* create_chocolate
CreateChocolate(dbLive, coll, next, payload, fault) ==
  LET chocolate == Chocolate(ModelDump(payload))
      o == CreateDocument(dbLive, coll, next, chocolate, fault)
      body == IF o.res.kind = "return" THEN Return([id |-> o.res.value])
              ELSE o.res
  IN  [inner |-> body, res |-> CatchAll(body), coll |-> o.coll, next |-> o.next]

\* A Python value is truthy: not None and not the empty string.
Truthy(opt) == opt # None /\ opt[1] # ""

\* filter_dict of list_chocolates: the category key and the $or key, each
\* present or not.
BuildFilter(category, q) ==
  [category |-> IF Truthy(category) THEN category ELSE None,
   or |-> IF Truthy(q) THEN q ELSE None]

\* {"name": {"$regex": q, "$options": "i"}}
NameClause(doc, q) == RegexSearch(Chars(q), Chars(doc["name"]))

\* {"tags": {"$in": [q]}}
TagsClause(doc, q) == InSeq(q, doc["tags"])

\* Whether the store selects doc under the filter.
Matches(doc, filter) ==
  /\ filter.category = None \/ doc["category"] = filter.category[1]
  /\ \/ filter.or = None
     \/ NameClause(doc, filter.or[1])
     \/ TagsClause(doc, filter.or[1])

\* The filter is one the store accepts: its $regex compiles.
FilterValid(filter) == filter.or = None \/ RegexCompiles(Chars(filter.or[1]))

\* get_documents(collection, filter, limit): StoreUnavailable without a
\* connection, otherwise up to limit matching documents in store order.
GetDocuments(dbLive, coll, filter, limit, fault) ==
  IF ~dbLive THEN Raise("Exception", 0, NotAvailableMsg)
  ELSE IF fault # NoFault THEN Raise("PyMongoError", 0, fault[1])
  ELSE IF ~FilterValid(filter) THEN Raise("OperationFailure", 0, BadRegexMsg)
  ELSE Return(Take(SelectSeq(coll, LAMBDA d : Matches(d, filter)), limit))

\* list_chocolates
ListChocolates(dbLive, coll, category, q, limit, fault) ==
  LET got == GetDocuments(dbLive, coll, BuildFilter(category, q), limit, fault)
      body == IF got.kind = "return"
              THEN Return([items |->
                     [i \in 1..Len(got.value) |-> Shape(got.value[i])]])
              ELSE got
  IN  [inner |-> body, res |-> CatchAll(body)]

\* db["chocolate"].find_one({"_id": oid})
FindOne(coll, oid) ==
  IF \E i \in 1..Len(coll) : coll[i]["_id"] = oid
  THEN Some(coll[CHOOSE i \in 1..Len(coll) : coll[i]["_id"] = oid])
  ELSE None

\* get_chocolate
GetChocolate(dbLive, coll, choc_id, fault) ==
  LET body ==
        IF ~dbLive THEN Raise("Exception", 0, NotAvailableMsg)
        ELSE IF ~ObjectIdValid(choc_id) THEN Raise("InvalidId", 0, InvalidIdMsg)
        ELSE IF fault # NoFault THEN Raise("PyMongoError", 0, fault[1])
        ELSE LET doc == FindOne(coll, ObjectIdParse(choc_id))
             IN  IF doc = None THEN Raise("HTTPException", 404, NotFoundMsg)
                 ELSE Return(Shape(doc[1]))
  IN  [inner |-> body, res |-> CatchAllButHttp(body)]

\* seed_chocolates up to its first store call: db is None, then
\* count_documents({}) and the count > 0 test.  "continue" goes on to the
\* insert.
SeedGuardInverted(dbLive, coll, fault) ==
  IF ~dbLive THEN Raise("Exception", 0, NotAvailableMsg)
  ELSE IF fault # NoFault THEN Raise("PyMongoError", 0, fault[1])
  ELSE IF Len(coll) = 0
  THEN Return([inserted |-> 0, message |-> AlreadySeededMsg])
  ELSE [kind |-> "continue"]

SeedGuard(dbLive, coll, fault) ==
  IF ~dbLive THEN Raise("Exception", 0, NotAvailableMsg)
  ELSE IF fault # NoFault THEN Raise("PyMongoError", 0, fault[1])
  ELSE IF Len(coll) > 0
  THEN Return([inserted |-> 0, message |-> AlreadySeededMsg])
  ELSE [kind |-> "continue"]

\* seed_chocolates from insert_many(samples) on.
SeedStoreReplaces(coll, next, fault) ==
  IF fault # NoFault
  THEN Outcome(Raise("PyMongoError", 0, fault[1]), coll, next)
  ELSE Outcome(Return([inserted |-> Len(Samples)]),
               InsertAll(<<>>, next, Samples), next + Len(Samples))

SeedStore(coll, next, fault) ==
  IF fault # NoFault
  THEN Outcome(Raise("PyMongoError", 0, fault[1]), coll, next)
  ELSE Outcome(Return([inserted |-> Len(Samples)]),
               InsertAll(coll, next, Samples), next + Len(Samples))

\* ------------------------------------------------------------ diagnostics
\* The labels are the source's with their emoji written in ASCII.
RunningLabel == "[ok] Running"
SetLabel == "[ok] Set"
NotSetLabel == "[x] Not Set"
DbName == "chocolate_shop"

\* A status text: a fixed label and the (cut) text of an exception.
Status(label, err) == [label |-> label, err |-> err]

\* collections[:10]
CapCollectionsMissing(names) == names

CapCollections(names) == Take(names, CollectionCap)

\* test_database down to its except clauses: the response before the two
\* environment fields are written.  listing is what db.list_collection_names()
\* does: it returns names or raises with a text.
Probe(dbLive, listing) ==
  LET start == [backend |-> RunningLabel,
                database |-> Status("[x] Not Available", <<>>),
                database_url |-> None,
                database_name |-> None,
                connection_status |-> "Not Connected",
                collections |-> <<>>]
  IN  IF dbLive
      THEN LET conn == [start EXCEPT
                          !.database = Status("[ok] Available", <<>>),
                          !.database_url = Some("[ok] Configured"),
                          !.database_name = Some(DbName),
                          !.connection_status = "Connected"]
           IN  IF listing.kind = "return"
               THEN [conn EXCEPT
                       !.collections = CapCollections(listing.value),
                       !.database = Status("[ok] Connected & Working", <<>>)]
               ELSE [conn EXCEPT
                       !.database = Status("[!] Connected but Error: ",
                                           Take(listing.msg, ErrorCap))]
      ELSE [start EXCEPT
              !.database = Status("[!] Available but not initialized", <<>>)]

\* "Set" if os.getenv(name) else "Not Set"
EnvLabel(value) == IF Truthy(value) THEN SetLabel ELSE NotSetLabel

\* The two assignments after the try statement.
ReportEnvMissing(response, envUrl, envName) == response

ReportEnv(response, envUrl, envName) ==
  [response EXCEPT !.database_url = Some(EnvLabel(envUrl)),
                   !.database_name = Some(EnvLabel(envName))]

\* test_database
TestDatabase(dbLive, listing, envUrl, envName) ==
  Return(ReportEnv(Probe(dbLive, listing), envUrl, envName))

\* ------------------------------------------------------------------ state
VARIABLES
  db,            \* the module's db is not None
  coll,          \* the "chocolate" collection, in store order
  nextOid,       \* the counter of the store's identifier generator
  pc,            \* per seed request in flight: "idle" or "counted"
  seedsStarted,  \* history: seed requests started
  seedReports,   \* history: seed responses that reported the sample count
  created,       \* history: the identifiers create returned, with payloads
  last           \* the completed request whose response is being sent

vars == <<db, coll, nextOid, pc, seedsStarted, seedReports, created, last>>

Req == 1..NumReq

\* The record of a completed request: the operation, its inputs (for a seed,
\* which has none, the collection before its last step), whether the store
\* was live for it (a connection, and no call of it failed), what its try
\* body ended with, and the response.
Done(op, req, live, inner, res) ==
  [op |-> op, req |-> req, live |-> live, inner |-> inner,
   resp |-> Respond(res)]

NoRequest == [op |-> "none"]

\* No response is being sent: the next handler step may run.
Ready == last = NoRequest

\* ----------------------------------------------------------------- inputs
Categories == {None, Some(""), Some("Bar"), Some("bar")}
Queries ==
  {None, Some(""), Some("dark"), Some("bar"), Some("BAR"), Some("."), Some("(")}
Limits == {1, DefaultLimit}
ListRequests ==
  [category : Categories, q : Queries, limit : Limits, fault : {NoFault}]
  \cup [category : {None}, q : {None}, limit : {DefaultLimit},
        fault : Faults \ {NoFault}]

FirstId == ObjectIdStr(ObjectIdOf(1))
MalformedIds ==
  { <<"a", "b", "c">>, Take(FirstId, OidHexLen - 1),
    [FirstId EXCEPT ![OidHexLen] = "g"], FirstId \o <<"0">> }
\* The identifiers create returned, the first and the next identifier of the
\* store in both cases of hex digits, and the malformed ones.
GetIds ==
  {created[i].id : i \in 1..Len(created)}
  \cup {FirstId, UpperHex(FirstId), ObjectIdStr(ObjectIdOf(nextOid))}
  \cup MalformedIds

CollectionNames(n) == [i \in 1..n |-> <<"collection", i>>]
ErrorText(n) == [i \in 1..n |-> "e"]
Listings ==
  {Return(CollectionNames(n)) :
     n \in {0, CollectionCap - 1, CollectionCap, CollectionCap + 1,
            MaxCollections}}
  \cup {Raise("PyMongoError", 0, ErrorText(n)) :
          n \in {0, ErrorCap, ErrorCap + 1}}
EnvUrls == {None, Some(""), Some("mongodb://localhost:27017")}
EnvNames == {None, Some(""), Some(DbName)}

\* ---------------------------------------------------------------- actions
Init ==
  /\ db \in BOOLEAN
  /\ coll = <<>>
  /\ nextOid = 1
  /\ pc = [r \in Req |-> "idle"]
  /\ seedsStarted = 0
  /\ seedReports = 0
  /\ created = <<>>
  /\ last = NoRequest

\* POST /api/chocolates
Create ==
  /\ Ready
  /\ Len(created) < MaxCreates
  /\ \E i \in 1..Len(Payloads), fault \in Faults :
       LET o == CreateChocolate(db, coll, nextOid, Payloads[i], fault)
       IN  /\ coll' = o.coll
           /\ nextOid' = o.next
           /\ created' =
                IF o.res.kind = "return"
                THEN Append(created, [id |-> o.res.value.id, payload |-> i])
                ELSE created
           /\ last' = Done("create", [payload |-> i], db /\ fault = NoFault,
                           o.inner, o.res)
  /\ UNCHANGED <<db, pc, seedsStarted, seedReports>>

\* GET /api/chocolates
List ==
  /\ Ready
  /\ \E rq \in ListRequests :
       LET o == ListChocolates(db, coll, rq.category, rq.q, rq.limit, rq.fault)
       IN  last' = Done("list", rq, db /\ rq.fault = NoFault, o.inner, o.res)
  /\ UNCHANGED <<db, coll, nextOid, pc, seedsStarted, seedReports, created>>

\* GET /api/chocolates/{choc_id}
Get ==
  /\ Ready
  /\ \E id \in GetIds, fault \in Faults :
       LET o == GetChocolate(db, coll, id, fault)
       IN  last' = Done("get", [choc_id |-> id], db /\ fault = NoFault,
                        o.inner, o.res)
  /\ UNCHANGED <<db, coll, nextOid, pc, seedsStarted, seedReports, created>>

\* GET /test
Test ==
  /\ Ready
  /\ \E listing \in Listings, u \in EnvUrls, n \in EnvNames :
       LET res == TestDatabase(db, listing, u, n)
       IN  last' = Done("test", [listing |-> listing, envUrl |-> u,
                                 envName |-> n], TRUE, res, res)
  /\ UNCHANGED <<db, coll, nextOid, pc, seedsStarted, seedReports, created>>

\* POST /api/chocolates/seed, to the end of its count_documents call: the
\* request answers at once, or goes on to insert.  A new request takes the
\* lowest free slot.
SeedCount(r) ==
  /\ Ready
  /\ pc[r] = "idle"
  /\ \A s \in Req : s < r => pc[s] # "idle"
  /\ seedsStarted < MaxSeeds
  /\ seedsStarted' = seedsStarted + 1
  /\ \E fault \in Faults :
       LET g == SeedGuard(db, coll, fault)
       IN  IF g.kind = "continue"
           THEN /\ pc' = [pc EXCEPT ![r] = "counted"]
                /\ last' = last
           ELSE /\ pc' = pc
                /\ last' = Done("seed", [pre |-> coll], db /\ fault = NoFault,
                                g, CatchAll(g))
  /\ UNCHANGED <<db, coll, nextOid, seedReports, created>>

\* POST /api/chocolates/seed, its insert_many call and its answer.
SeedInsert(r) ==
  /\ Ready
  /\ pc[r] = "counted"
  /\ \E fault \in Faults :
       LET o == SeedStore(coll, nextOid, fault)
       IN  /\ coll' = o.coll
           /\ nextOid' = o.next
           /\ seedReports' =
                IF o.res.kind = "return" THEN seedReports + 1 ELSE seedReports
           /\ last' = Done("seed", [pre |-> coll], fault = NoFault, o.res,
                           CatchAll(o.res))
  /\ pc' = [pc EXCEPT ![r] = "idle"]
  /\ UNCHANGED <<db, seedsStarted, created>>

\* The framework sends the response of the completed request.
Deliver ==
  /\ ~Ready
  /\ last' = NoRequest
  /\ UNCHANGED <<db, coll, nextOid, pc, seedsStarted, seedReports, created>>

Next ==
  \/ Create
  \/ List
  \/ Get
  \/ Test
  \/ \E r \in Req : SeedCount(r)
  \/ \E r \in Req : SeedInsert(r)
  \/ Deliver

\* Requests dispatched concurrently: a request may start while a seed is
\* between its two store calls.
Spec == Init /\ [][Next]_vars

\* Requests dispatched one at a time: a request starts only when no seed is
\* between its two store calls.
Quiet == \A r \in Req : pc[r] = "idle"

SeqNext ==
  \/ Quiet /\ Create
  \/ Quiet /\ List
  \/ Quiet /\ Get
  \/ Quiet /\ Test
  \/ Quiet /\ \E r \in Req : SeedCount(r)
  \/ \E r \in Req : SeedInsert(r)
  \/ Deliver

SeqSpec == Init /\ [][SeqNext]_vars

\* ----------------------------------------------------------------- claims
\* The catalog fields of a stored document or of a response.
FieldsOf(doc) == [f \in Fields |-> doc[f]]

\* C1 (under SeqSpec): a seed that runs alone against a live store and finds
\* the collection empty inserts exactly the 4 sample records and reports
\* inserted = 4; one that finds a record inserts nothing, leaves the
\* collection as it was and reports inserted = 0 with the message
\* "Collection already has data".  So at most one seed of a sequential run
\* ever reports an insertion.
C1_SeedAlone ==
  /\ (last.op = "seed" /\ last.live) =>
       /\ last.resp.status = 200
       /\ IF last.req.pre = <<>>
          THEN /\ last.resp.body = [inserted |-> 4]
               /\ Len(coll) = 4
               /\ \A k \in 1..4 : FieldsOf(coll[k]) = Samples[k]
          ELSE /\ last.resp.body =
                    [inserted |-> 0, message |-> "Collection already has data"]
               /\ coll = last.req.pre
  /\ seedReports <= 1

\* A second seed of a sequential run answers 0 after the first inserted.
C1_Witness ==
  /\ last.op = "seed" /\ last.live
  /\ seedReports = 1
  /\ Len(last.req.pre) = 4
  /\ last.resp.body.inserted = 0

\* C2: whatever the interleaving of the seed requests, the sample set is
\* inserted at most once: at most one request reports inserted = 4 and the
\* collection holds at most 4 seeded records.
C2_SeedOnce ==
  /\ seedReports <= 1
  /\ Len(coll) <= 4 + Len(created)

\* C3: get-by-id with a malformed identifier answers 404 (stated for a live
\* store, where no other failure can be the cause of the status).
C3_MalformedIsNotFound ==
  (last.op = "get" /\ last.live /\ ~ObjectIdValid(last.req.choc_id)) =>
    last.resp.status = 404

\* C4: get-by-id with a well-formed identifier and a live store answers 404
\* when no record has the identifier, and otherwise that record without its
\* "_id" key and with "id" the identifier as a string.
C4_GetWellFormed ==
  (last.op = "get" /\ last.live /\ ObjectIdValid(last.req.choc_id)) =>
    LET oid == ObjectIdParse(last.req.choc_id)
        hits == {i \in 1..Len(coll) : coll[i]["_id"] = oid}
    IN  IF hits = {}
        THEN last.resp.status = 404 /\ ~last.resp.escaped
        ELSE \E i \in hits :
               /\ last.resp.status = 200
               /\ DOMAIN last.resp.body = Fields \cup {"id"}
               /\ FieldsOf(last.resp.body) = FieldsOf(coll[i])
               /\ ObjectIdParse(last.resp.body["id"]) = oid
               /\ \A k \in 1..OidHexLen :
                    \E d \in 1..16 : HexDigits[d] = last.resp.body["id"][k]

\* A well-formed identifier that no record of a non-empty collection has.
C4_Witness ==
  /\ last.op = "get" /\ last.live
  /\ ObjectIdValid(last.req.choc_id)
  /\ Len(coll) > 0
  /\ last.resp.status = 404

\* The fields create is to store for a payload: the payload's, and for an
\* omitted optional field its default.
Expected(payload) ==
  [f \in Fields |->
     IF f \in DOMAIN payload THEN payload[f]
     ELSE IF f = "tags" THEN <<>>
     ELSE IF f = "in_stock" THEN TRUE
     ELSE None]

\* C5: get-by-id on an identifier that create returned, whatever ran in
\* between, answers the record whose fields are the submitted payload's, with
\* tags = [] and in_stock = true where omitted (the store being live for the
\* get).
C5_CreateGetRoundTrip ==
  (last.op = "get" /\ last.live) =>
    \A k \in 1..Len(created) :
      created[k].id = last.req.choc_id =>
        /\ last.resp.status = 200
        /\ FieldsOf(last.resp.body) = Expected(Payloads[created[k].payload])
        /\ last.resp.body["id"] = created[k].id

\* The first created record, with optional fields omitted, is fetched after
\* a seed and another create.
C5_Witness ==
  /\ last.op = "get" /\ last.live
  /\ Len(created) = 2 /\ seedReports >= 1
  /\ created[1].id = last.req.choc_id
  /\ created[1].payload = 1
  /\ last.resp.body["in_stock"] = TRUE

\* q as a case-insensitive substring of text: no character is special.
ContainsFold(text, sub) ==
  \E start \in 1..(Len(text) - Len(sub) + 1) :
    \A i \in 1..Len(sub) : Fold(sub[i]) = Fold(text[start + i - 1])

\* A filter parameter that is not given, or given empty.
Absent(opt) == opt = None \/ opt = Some("")

\* The record selection the list contract states.
Selected(r, category, q) ==
  /\ Absent(category) \/ r["category"] = category[1]
  /\ \/ Absent(q)
     \/ ContainsFold(Chars(r["name"]), Chars(q[1]))
     \/ InSeq(q[1], r["tags"])

\* C6: the items of a list response are, up to the limit, exactly the records
\* whose category is the given one and whose name contains q as a
\* case-insensitive substring or whose tags contain q.
C6_ListFilter ==
  (last.op = "list" /\ last.resp.status = 200) =>
    LET want == Take(SelectSeq(coll,
                       LAMBDA r : Selected(r, last.req.category, last.req.q)),
                     last.req.limit)
    IN  /\ Len(last.resp.body.items) = Len(want)
        /\ \A i \in 1..Len(want) :
             FieldsOf(last.resp.body.items[i]) = FieldsOf(want[i])

\* C7: in create, list, get-by-id and seed every exception of the store
\* (its absence included) becomes a 500 whose detail is the exception's
\* message; the only other failure is the 404 of get-by-id, and no exception
\* leaves a handler unhandled.
C7_ErrorMapping ==
  (last.op \in {"create", "list", "get", "seed"}) =>
    /\ ~last.resp.escaped
    /\ last.resp.status \in {200, 404, 500}
    /\ last.resp.status = 404 => last.op = "get"
    /\ (last.inner.kind = "raise" /\ last.inner.type # "HTTPException") =>
         /\ last.resp.status = 500
         /\ last.resp.body = [detail |-> last.inner.msg]
    /\ ~last.live => last.resp.status = 500
    /\ last.resp.status = 500 => last.inner.kind = "raise"

\* A seed whose store call failed answers 500 with the driver's message.
C7_Witness ==
  /\ last.op = "seed"
  /\ db /\ ~last.live
  /\ last.resp.status = 500
  /\ last.resp.body = [detail |-> "connection closed"]

\* C8: the diagnostic check always answers with backend running, at most 10
\* collections, and a failure only as the text of the database field.
C8_DiagnosticNeverFails ==
  (last.op = "test") =>
    /\ last.resp.status = 200 /\ ~last.resp.escaped
    /\ last.resp.body.backend = "[ok] Running"
    /\ Len(last.resp.body.collections) <= 10
    /\ ~db => /\ last.resp.body.database.label =
                   "[!] Available but not initialized"
              /\ last.resp.body.collections = <<>>
    /\ (db /\ last.req.listing.kind = "raise") =>
         /\ last.resp.body.database.label = "[!] Connected but Error: "
         /\ Len(last.resp.body.database.err) <= 50
         /\ last.resp.body.collections = <<>>
    /\ (db /\ last.req.listing.kind = "return") =>
         /\ last.resp.body.database.label = "[ok] Connected & Working"
         /\ \A i \in 1..Len(last.resp.body.collections) :
              last.resp.body.collections[i] = last.req.listing.value[i]

\* The database lists more than 10 collections and 10 are reported.
C8_Witness ==
  /\ last.op = "test" /\ db
  /\ last.req.listing.kind = "return"
  /\ Len(last.req.listing.value) > 10
  /\ Len(last.resp.body.collections) = 10

\* C9: no step updates or deletes a record: every stored record stays, with
\* its identifier and fields; list, get-by-id, the diagnostic check and a
\* seed that counted a record leave the collection as it is; create adds one
\* record and seed four.
C9_Step ==
  /\ Len(coll') >= Len(coll)
  /\ \A i \in 1..Len(coll) : coll'[i] = coll[i]
  /\ (last' # last /\ last'.op \in {"list", "get", "test"}) => coll' = coll
  /\ (last' # last /\ last'.op = "seed" /\ pc' = pc) => coll' = coll
  /\ (last' # last /\ last'.op = "create") => Len(coll') <= Len(coll) + 1
  /\ (last' # last /\ last'.op = "seed") =>
       Len(coll') \in {Len(coll), Len(coll) + 4}

\* C9: every step of every run is such a step: records are never updated or
\* deleted.
C9_NeverUpdatedOrDeleted == [][C9_Step]_vars

\* A created record is still stored after a later seed inserted its samples
\* and another record was created.
C9_Witness ==
  /\ Len(created) = 2 /\ seedReports = 2
  /\ \E i \in 1..Len(coll) : ObjectIdStr(coll[i]["_id"]) = created[1].id
  /\ Len(coll) = 10

\* C10: the database_url and database_name of every diagnostic response are
\* "Set" or "Not Set", by whether the environment setting is non-empty and by
\* nothing else.
C10_EnvPresenceOnly ==
  (last.op = "test") =>
    /\ last.resp.body.database_url =
         IF last.req.envUrl # <<>> /\ last.req.envUrl # <<"">>
         THEN <<"[ok] Set">> ELSE <<"[x] Not Set">>
    /\ last.resp.body.database_name =
         IF last.req.envName # <<>> /\ last.req.envName # <<"">>
         THEN <<"[ok] Set">> ELSE <<"[x] Not Set">>

\* With a connection, whose name was written first, and the name unset.
C10_Witness ==
  /\ last.op = "test" /\ db
  /\ last.req.envName = <<>>
  /\ last.resp.body.database_name = <<"[x] Not Set">>
====
